---- MODULE Spec2Model ----
(***************************************************************************)
(* Model of the CICD Monitor client core:                                  *)
(*   - MonitorWebSocket (frontend/src/lib/websocket.ts): the reconnecting  *)
(*     transport with its two subscriber lists;                            *)
(*   - the monitor store (frontend/src/stores/monitorStore.ts): the event  *)
(*     log, the session state and the connection indicators.               *)
(* Every callback of the single-threaded event loop is one atomic action.  *)
(***************************************************************************)
EXTENDS Integers, Sequences, FiniteSets, TLC

VARIABLES
    ws,                 \* MonitorWebSocket.ws: NONE or the referenced socket's readyState
    detached,           \* live sockets the transport no longer references
    isManualClose,      \* MonitorWebSocket.isManualClose
    reconnectTimeout,   \* MonitorWebSocket.reconnectTimeout: NULL or a timer id
    timers,             \* pending setTimeout timers: records [id, remaining]
    messageHandlers,    \* MonitorWebSocket.messageHandlers
    connectionHandlers, \* MonitorWebSocket.connectionHandlers
    events,             \* store.events
    state,              \* store.state
    connected,          \* store.connected
    connectedSig,       \* the `connected` signal
    duration,           \* the `duration` signal
    notified,           \* handlers invoked by the last step, in order, with argument
    thrown,             \* the last step ended with an exception leaving the callback
    last,               \* the last step taken
    lastCall,           \* the last explicit connect()/disconnect() call
    history,            \* events of the last init, then the events delivered since
    applied,            \* number of store operations or frames so far
    tokens,             \* unsubscribe functions returned so far: [handler, spent]
    durationInterval,   \* monitorStore's durationInterval: NULL or an interval id
    intervals,          \* pending setInterval timers, by id
    clock,              \* Date.now() as the last duration tick read it
    mounts              \* initializeMonitor() calls so far

tvars == <<ws, detached, isManualClose, reconnectTimeout, timers,
           messageHandlers, connectionHandlers>>
svars == <<events, state, connected, connectedSig, duration>>
gvars == <<notified, thrown, last, lastCall, history, applied, tokens>>
dvars == <<durationInterval, intervals, clock, mounts>>
vars == <<tvars, svars, gvars, dvars>>

----------------------------------------------------------------------------
(* Bounds of the model *)

MaxSockets == 3
MaxConnectionHandlers == 2
MaxMessageHandlers == 1
TimeSteps == 2
MaxMessages == 4
StreamExtra == 3
MaxBusHandlers == 2
MaxFrames == 1
MaxTokens == 3
MaxMounts == 2

(* Program constants *)

RECONNECT_DELAY == 3000
EVENT_CAP == 1000

NULL == 0
NONE == "null"

Min(a, b) == IF a < b THEN a ELSE b
Max(a, b) == IF a > b THEN a ELSE b

----------------------------------------------------------------------------
(* Subscribers *)

\* The store's own handlers and two outside handlers per list, one of which
\* throws whenever it is invoked.
ConnectionHandlerIds == {"handleConnection", "cThrow"}
MessageHandlerIds == {"handleMessage", "mThrow"}

Throws(h) == h \in {"cThrow", "mThrow"}

\* onMessage / onConnection: push(handler)
Push(list, h) == Append(list, h)

\* indexOf(handler): 1-based position of the first occurrence, 0 when absent
IndexOf(list, h) ==
    IF \E i \in 1..Len(list) : list[i] = h
    THEN CHOOSE i \in 1..Len(list) :
             list[i] = h /\ \A j \in 1..(i - 1) : list[j] # h
    ELSE 0

\* the unsubscribe closure: if (index > -1) splice(index, 1)
Unsubscribed(list, h) ==
    LET i == IndexOf(list, h)
    IN IF i > 0
       THEN SubSeq(list, 1, i - 1) \o SubSeq(list, i + 1, Len(list))
       ELSE list

\* for (const handler of list) handler(arg): the loop ends at the first
\* handler that throws, and the exception leaves the loop.
Invoked(list) ==
    IF \E i \in 1..Len(list) : Throws(list[i])
    THEN SubSeq(list, 1, CHOOSE i \in 1..Len(list) :
                             Throws(list[i]) /\ \A j \in 1..(i - 1) : ~Throws(list[j]))
    ELSE list

LoopThrows(list) == \E i \in 1..Len(list) : Throws(list[i])

Calls(list, arg) == [i \in 1..Len(Invoked(list)) |-> <<Invoked(list)[i], arg>>]

\* handleConnection(isConnected): setConnected, setStore("connected", ...)
HandleConnection(old, list, arg) ==
    IF \E i \in 1..Len(Invoked(list)) : Invoked(list)[i] = "handleConnection"
    THEN arg
    ELSE old

----------------------------------------------------------------------------
(* Sockets and timers *)

\* A socket object matters through its readyState and through whether `ws`
\* still references it.  `ws` holds the readyState of the referenced socket
\* (NONE for null); `detached` counts, per readyState, the sockets that the
\* transport created and no longer references but that are not closed yet:
\* their onopen/onclose/onmessage callbacks stay wired to the transport.
LiveStates == {"CONNECTING", "OPEN", "CLOSING"}

NoSockets == [rs \in LiveStates |-> 0]

Detach(bag, rs) == IF rs \in LiveStates THEN [bag EXCEPT ![rs] = @ + 1] ELSE bag

LiveCount(w, bag) ==
    (IF w \in LiveStates THEN 1 ELSE 0)
    + bag["CONNECTING"] + bag["OPEN"] + bag["CLOSING"]

\* this.ws?.readyState === WebSocket.OPEN
IsOpen(w) == w = "OPEN"

\* isConnected()
IsConnected == IsOpen(ws)

TimerIds(ts) == {t.id : t \in ts}

\* setTimeout returns an id that no pending timer and no kept handle has.
FreshTimer ==
    CHOOSE i \in 1..(Cardinality(timers) + 2) :
        i \notin TimerIds(timers) /\ i # reconnectTimeout

\* clearTimeout(handle)
ClearTimeout(ts, handle) == {t \in ts : t.id # handle}

\* setTimeout(callback, RECONNECT_DELAY)
SetTimeout(ts, id) == ts \cup {[id |-> id, remaining |-> RECONNECT_DELAY]}

\* scheduleReconnect() that leaves the timer set before in place
ScheduleReconnect_NoClear(ts, handle, id) == SetTimeout(ts, id)

\* scheduleReconnect(): the pending timers afterwards
ScheduleReconnect(ts, handle, id) ==
    SetTimeout(IF handle # NULL THEN ClearTimeout(ts, handle) ELSE ts, id)

\* onclose that reconnects after a manual close too
ShouldReconnect_Always(manual) == TRUE

\* onclose: if (!this.isManualClose) this.scheduleReconnect()
ShouldReconnect(manual) == ~manual

\* ws.close(): a connecting or open socket starts closing
CloseSocket(rs) == IF rs \in {"CONNECTING", "OPEN"} THEN "CLOSING" ELSE rs

Quantum == RECONNECT_DELAY \div TimeSteps

----------------------------------------------------------------------------
(* The store's initial value *)

EmptyState ==
    [active_agent |-> NONE, active_workflow |-> NONE,
     started_at |-> NULL, event_count |-> 0]

Step(op, flag) == [op |-> op, flag |-> flag]

Init ==
    /\ ws = NONE
    /\ detached = NoSockets
    /\ isManualClose = FALSE
    /\ reconnectTimeout = NULL
    /\ timers = {}
    /\ messageHandlers = << >>
    /\ connectionHandlers = << >>
    /\ events = << >>
    /\ state = EmptyState
    /\ connected = FALSE
    /\ connectedSig = FALSE
    /\ duration = "-"
    /\ notified = << >>
    /\ thrown = FALSE
    /\ last = Step("init", FALSE)
    /\ lastCall = "none"
    /\ history = << >>
    /\ applied = 0
    /\ tokens = << >>
    /\ durationInterval = NULL
    /\ intervals = {}
    /\ clock = NULL
    /\ mounts = 0

----------------------------------------------------------------------------
(* MonitorWebSocket *)

\* connect() without the early return
ConnectNoop_Never(w) == FALSE

\* connect(): returns at once when the current socket is open
ConnectNoop(w) == IsOpen(w)

\* connect(): otherwise the flag is cleared and a new socket replaces the
\* handle; the socket referenced before is neither closed nor unwired.
ConnectBody ==
    IF ConnectNoop(ws)
    THEN UNCHANGED <<ws, detached, isManualClose>>
    ELSE /\ isManualClose' = FALSE
         /\ ws' = "CONNECTING"
         /\ detached' = Detach(detached, ws)

\* An explicit connect() call.
Connect ==
    /\ ConnectNoop(ws) \/ LiveCount(ws, detached) < MaxSockets - 1
    /\ ConnectBody
    /\ notified' = << >>
    /\ thrown' = FALSE
    /\ last' = Step("connect", ConnectNoop(ws))
    /\ lastCall' = "connect"
    /\ UNCHANGED <<reconnectTimeout, timers, messageHandlers, connectionHandlers,
                   svars, history, applied, tokens, dvars>>

\* The reconnect timer's callback: this.connect()
TimerFire(t) ==
    /\ t \in timers
    /\ t.remaining = 0
    /\ ConnectNoop(ws) \/ LiveCount(ws, detached) < MaxSockets
    /\ timers' = timers \ {t}
    /\ ConnectBody
    /\ notified' = << >>
    /\ thrown' = FALSE
    /\ last' = Step("timer", ConnectNoop(ws))
    /\ UNCHANGED <<reconnectTimeout, messageHandlers, connectionHandlers,
                   svars, lastCall, history, applied, tokens, dvars>>

\* Time passes while a timer is not yet due.
Tick ==
    /\ \E t \in timers : t.remaining > 0
    /\ timers' = {[id |-> t.id, remaining |-> Max(0, t.remaining - Quantum)] : t \in timers}
    /\ notified' = << >>
    /\ thrown' = FALSE
    /\ last' = Step("tick", FALSE)
    /\ UNCHANGED <<ws, detached, isManualClose, reconnectTimeout,
                   messageHandlers, connectionHandlers, svars, lastCall, history, applied, tokens, dvars>>

\* a disconnect() that does not mark the close as manual
DisconnectBody_KeepsFlag ==
    /\ UNCHANGED isManualClose
    /\ IF reconnectTimeout # NULL
       THEN /\ timers' = ClearTimeout(timers, reconnectTimeout)
            /\ reconnectTimeout' = NULL
       ELSE UNCHANGED <<timers, reconnectTimeout>>
    /\ IF ws # NONE
       THEN /\ detached' = Detach(detached, CloseSocket(ws))
            /\ ws' = NONE
       ELSE UNCHANGED <<detached, ws>>

\* disconnect(): the flag, the timer and the socket
DisconnectBody ==
    /\ isManualClose' = TRUE
    /\ IF reconnectTimeout # NULL
       THEN /\ timers' = ClearTimeout(timers, reconnectTimeout)
            /\ reconnectTimeout' = NULL
       ELSE UNCHANGED <<timers, reconnectTimeout>>
    /\ IF ws # NONE
       THEN /\ detached' = Detach(detached, CloseSocket(ws))
            /\ ws' = NONE
       ELSE UNCHANGED <<detached, ws>>

\* An explicit disconnect() call.
Disconnect ==
    /\ DisconnectBody
    /\ notified' = << >>
    /\ thrown' = FALSE
    /\ last' = Step("disconnect", reconnectTimeout \in TimerIds(timers))
    /\ lastCall' = "disconnect"
    /\ UNCHANGED <<messageHandlers, connectionHandlers, svars, history, applied, tokens, dvars>>

\* notifyConnection(arg) as the store sees it
NotifyConnection(arg) ==
    /\ notified' = Calls(connectionHandlers, arg)
    /\ thrown' = LoopThrows(connectionHandlers)
    /\ connected' = HandleConnection(connected, connectionHandlers, arg)
    /\ connectedSig' = HandleConnection(connectedSig, connectionHandlers, arg)

\* ws.onopen of the referenced socket (cur) or of a detached one:
\* notifyConnection(true)
OnOpen(cur) ==
    /\ IF cur
       THEN /\ ws = "CONNECTING"
            /\ ws' = "OPEN"
            /\ UNCHANGED detached
       ELSE /\ detached["CONNECTING"] > 0
            /\ detached' = [detached EXCEPT !["CONNECTING"] = @ - 1, !["OPEN"] = @ + 1]
            /\ UNCHANGED ws
    /\ NotifyConnection(TRUE)
    /\ last' = Step("open", cur)
    /\ UNCHANGED <<isManualClose, reconnectTimeout, timers,
                   messageHandlers, connectionHandlers,
                   events, state, duration, lastCall, history, applied, tokens, dvars>>

\* ws.onclose of the referenced socket (cur) or of a detached one in state rs
\* (server close, network failure, failed attempt, or the close that follows
\* ws.close()): notifyConnection(false), then scheduleReconnect() unless
\* manually closed.  An exception thrown by a subscriber leaves the callback
\* before the reconnect is scheduled.
OnClose(cur, rs) ==
    /\ IF cur
       THEN /\ ws = rs
            /\ ws' = "CLOSED"
            /\ UNCHANGED detached
       ELSE /\ detached[rs] > 0
            /\ detached' = [detached EXCEPT ![rs] = @ - 1]
            /\ UNCHANGED ws
    /\ NotifyConnection(FALSE)
    /\ IF ~LoopThrows(connectionHandlers) /\ ShouldReconnect(isManualClose)
       THEN /\ timers' = ScheduleReconnect(timers, reconnectTimeout, FreshTimer)
            /\ reconnectTimeout' = FreshTimer
       ELSE UNCHANGED <<timers, reconnectTimeout>>
    /\ last' = Step("close", timers # {})
    /\ UNCHANGED <<isManualClose, messageHandlers, connectionHandlers,
                   events, state, duration, lastCall, history, applied, tokens, dvars>>

\* onConnection(handler)
SubscribeConnection(h) ==
    /\ Len(connectionHandlers) < MaxConnectionHandlers
    /\ connectionHandlers' = Push(connectionHandlers, h)
    /\ notified' = << >>
    /\ thrown' = FALSE
    /\ last' = Step("onConnection", FALSE)
    /\ UNCHANGED <<ws, detached, isManualClose, reconnectTimeout, timers,
                   messageHandlers, svars, lastCall, history, applied, tokens, dvars>>

\* the closure returned by onConnection(handler)
UnsubscribeConnection(h) ==
    /\ connectionHandlers' = Unsubscribed(connectionHandlers, h)
    /\ notified' = << >>
    /\ thrown' = FALSE
    /\ last' = Step("unsubConnection", IndexOf(connectionHandlers, h) > 0)
    /\ UNCHANGED <<ws, detached, isManualClose, reconnectTimeout, timers,
                   messageHandlers, svars, lastCall, history, applied, tokens, dvars>>

\* onMessage(handler), while the list holds fewer than `limit` handlers
SubscribeMessageUpTo(limit, h) ==
    /\ Len(messageHandlers) < limit
    /\ messageHandlers' = Push(messageHandlers, h)
    /\ notified' = << >>
    /\ thrown' = FALSE
    /\ last' = Step("onMessage", FALSE)
    /\ UNCHANGED <<ws, detached, isManualClose, reconnectTimeout, timers,
                   connectionHandlers, svars, lastCall, history, applied, tokens, dvars>>

SubscribeMessage(h) == SubscribeMessageUpTo(MaxMessageHandlers, h)

\* the closure returned by onMessage(handler)
UnsubscribeMessage(h) ==
    /\ messageHandlers' = Unsubscribed(messageHandlers, h)
    /\ notified' = << >>
    /\ thrown' = FALSE
    /\ last' = Step("unsubMessage", IndexOf(messageHandlers, h) > 0)
    /\ UNCHANGED <<ws, detached, isManualClose, reconnectTimeout, timers,
                   connectionHandlers, svars, lastCall, history, applied, tokens, dvars>>

\* onMessage(handler), keeping the unsubscribe function it returns
TokenSubscribe(h) ==
    /\ Len(tokens) < MaxTokens
    /\ messageHandlers' = Push(messageHandlers, h)
    /\ tokens' = Append(tokens, [handler |-> h, spent |-> FALSE])
    /\ notified' = << >>
    /\ thrown' = FALSE
    /\ last' = Step("onMessage", FALSE)
    /\ UNCHANGED <<ws, detached, isManualClose, reconnectTimeout, timers,
                   connectionHandlers, svars, lastCall, history, applied, dvars>>

\* a call of the k-th unsubscribe function returned: the closure holds the
\* handler and looks it up with indexOf at the time of the call
TokenInvoke(k) ==
    /\ k \in 1..Len(tokens)
    /\ messageHandlers' = Unsubscribed(messageHandlers, tokens[k].handler)
    /\ tokens' = [tokens EXCEPT ![k].spent = TRUE]
    /\ notified' = << >>
    /\ thrown' = FALSE
    /\ last' = Step("token", tokens[k].spent)
    /\ UNCHANGED <<ws, detached, isManualClose, reconnectTimeout, timers,
                   connectionHandlers, svars, lastCall, history, applied, dvars>>

NextTokens ==
    \/ \E h \in MessageHandlerIds : TokenSubscribe(h)
    \/ \E k \in 1..MaxTokens : TokenInvoke(k)

SpecTokens == Init /\ [][NextTokens]_vars

NextTransport ==
    \/ Connect
    \/ Disconnect
    \/ Tick
    \/ \E t \in timers : TimerFire(t)
    \/ \E cur \in BOOLEAN : OnOpen(cur)
    \/ \E cur \in BOOLEAN, rs \in LiveStates : OnClose(cur, rs)
    \/ \E h \in ConnectionHandlerIds : SubscribeConnection(h)
    \/ \E h \in ConnectionHandlerIds : UnsubscribeConnection(h)
    \/ \E h \in MessageHandlerIds : SubscribeMessage(h)
    \/ \E h \in MessageHandlerIds : UnsubscribeMessage(h)

SpecTransport == Init /\ [][NextTransport]_vars

\* The bound on sockets never holds back a due timer: explicit connect()
\* calls stop one socket short of MaxSockets, and a timer is only pending
\* after a socket has closed.
TimerNeverBlocked ==
    \A t \in timers :
        t.remaining = 0 => ConnectNoop(ws) \/ LiveCount(ws, detached) < MaxSockets

----------------------------------------------------------------------------
(* The monitor store *)

\* Event: timestamp, agent, action, workflow.  `parent` and `metadata` are
\* never read by the store and are left out.
Event(ts, agent, action, workflow) ==
    [timestamp |-> ts, agent |-> agent, action |-> action, workflow |-> workflow]

Agents == {"coder", "tester"}

\* The events an `event` message can carry as the n-th store operation.
EventChoices(n) ==
    {Event(n, a, "start", w) : a \in Agents, w \in {NONE, "wf"}}
    \cup {Event(n, a, act, NONE) : a \in Agents, act \in {"end", "error"}}

\* The n-th event of a long session: agents and actions alternate.
StreamEvent(n) ==
    Event(n,
          IF n % 2 = 0 THEN "coder" ELSE "tester",
          IF n % 3 = 1 THEN "start" ELSE IF n % 3 = 2 THEN "end" ELSE "error",
          IF n % 3 = 1 THEN "wf" ELSE NONE)

\* Event sequences an `init` snapshot can carry: none, two events, and one
\* more than the log's capacity.
SnapshotEvent(i) == Event(0 - i, "coder", "error", NONE)

InitEventLists ==
    {<< >>,
     <<SnapshotEvent(2), SnapshotEvent(1)>>,
     [i \in 1..(EVENT_CAP + 1) |-> SnapshotEvent(EVENT_CAP + 2 - i)]}

SnapshotState ==
    [active_agent |-> "coder", active_workflow |-> "wf",
     started_at |-> 0 - 1, event_count |-> 7]

InitMessages ==
    {[hasEvents |-> FALSE, events |-> << >>, hasState |-> hs] : hs \in BOOLEAN}
    \cup {[hasEvents |-> TRUE, events |-> evs, hasState |-> hs] :
              evs \in InitEventLists, hs \in BOOLEAN}

\* slice(-n)
SliceLast(log, n) == SubSeq(log, Max(1, Len(log) - n + 1), Len(log))

\* a truncation that keeps the oldest events: slice(0, 1000)
Truncate_KeepOldest(log) ==
    IF Len(log) > EVENT_CAP THEN SubSeq(log, 1, EVENT_CAP) ELSE log

\* if (s.events.length > 1000) s.events = s.events.slice(-1000)
Truncate(log) == IF Len(log) > EVENT_CAP THEN SliceLast(log, EVENT_CAP) ELSE log

\* s.events.push(event), then the truncation
Appended(log, e) == Truncate(Append(log, e))

\* a fold in which any `end` clears the session, whoever is active
Fold_EndAlwaysClears(st, e) ==
    IF e.action = "start"
    THEN [st EXCEPT !.active_agent = e.agent,
                    !.active_workflow = e.workflow,
                    !.started_at = e.timestamp]
    ELSE IF e.action = "end"
    THEN [st EXCEPT !.active_agent = NONE,
                    !.active_workflow = NONE,
                    !.started_at = NULL]
    ELSE st

\* a fold in which a start is taken only when no session is active
Fold_StartWhenIdle(st, e) ==
    IF e.action = "start" /\ st.active_agent = NONE
    THEN [st EXCEPT !.active_agent = e.agent,
                    !.active_workflow = e.workflow,
                    !.started_at = e.timestamp]
    ELSE IF e.action = "end" /\ st.active_agent = e.agent
    THEN [st EXCEPT !.active_agent = NONE,
                    !.active_workflow = NONE,
                    !.started_at = NULL]
    ELSE st

\* updateStateFromEvent, the start/end rule
Fold(st, e) ==
    IF e.action = "start"
    THEN [st EXCEPT !.active_agent = e.agent,
                    !.active_workflow = e.workflow,
                    !.started_at = e.timestamp]
    ELSE IF e.action = "end" /\ st.active_agent = e.agent
    THEN [st EXCEPT !.active_agent = NONE,
                    !.active_workflow = NONE,
                    !.started_at = NULL]
    ELSE st

\* state.event_count = store.events.length + 1
\* produce() hands the callback a proxy that writes through to the store's
\* own object, and `store` reads that same object: when updateStateFromEvent
\* runs, store.events is the log with the event already pushed and the
\* truncation already applied.
StoreLengthSeen(before, after) == Len(after)

UpdateStateFromEvent(st, e, before, after) ==
    [Fold(st, e) EXCEPT !.event_count = StoreLengthSeen(before, after) + 1]

\* an init that keeps the log it finds and adds the snapshot's events
InitLog_KeepPrior(log, m) == log \o (IF m.hasEvents THEN m.events ELSE << >>)

\* s.events = message.events || []
InitLog(log, m) == IF m.hasEvents THEN m.events ELSE << >>

\* an init that falls back to the empty session when it has no snapshot
InitState_ResetsWithout(st, m) == IF m.hasState THEN SnapshotState ELSE EmptyState

\* if (message.state) s.state = message.state
InitState(st, m) == IF m.hasState THEN SnapshotState ELSE st

\* handleMessage({type: "init", events?, state?})
ApplyInit(m) ==
    /\ events' = InitLog(events, m)
    /\ state' = InitState(state, m)
    /\ history' = (IF m.hasEvents THEN m.events ELSE << >>)
    /\ last' = Step("init", m.hasState)
    /\ UNCHANGED <<connected, connectedSig, duration>>

\* handleMessage({type: "event", event})
ApplyEvent(e) ==
    /\ events' = Appended(events, e)
    /\ state' = UpdateStateFromEvent(state, e, events, events')
    /\ history' = Append(history, e)
    /\ last' = Step("event", Len(events) >= EVENT_CAP)
    /\ UNCHANGED <<connected, connectedSig, duration>>

\* a handler whose `error` branch drops the session
ApplyIgnored_ErrorEndsSession(type) ==
    /\ last' = Step("ignored", type = "error")
    /\ state' = (IF type = "error"
                 THEN [state EXCEPT !.active_agent = NONE,
                                    !.active_workflow = NONE,
                                    !.started_at = NULL]
                 ELSE state)
    /\ UNCHANGED <<events, connected, connectedSig, duration, history>>

\* handleMessage({type: "event"}) without an event, and
\* handleMessage({type: "error", message}): neither branch is taken
ApplyIgnored(type) ==
    /\ last' = Step("ignored", type = "error")
    /\ UNCHANGED <<svars, history>>

\* a reset that finds the initial values in initialState
ResetMonitor_Pristine ==
    /\ events' = << >>
    /\ state' = EmptyState
    /\ connected' = FALSE
    /\ duration' = "-"
    /\ last' = Step("reset", FALSE)
    /\ UNCHANGED <<connectedSig, history>>

\* resetMonitor(): setStore(initialState); setDuration("-").
\* createStore(initialState) made `initialState` the store's own object, so
\* every later write went into it, and setStore(initialState) merges the
\* store's current fields into themselves.
ResetMonitor ==
    /\ duration' = "-"
    /\ last' = Step("reset", FALSE)
    /\ UNCHANGED <<events, state, connected, connectedSig, history>>

\* One store operation, called directly, of at most `limit`.
StoreStep(limit) ==
    /\ applied < limit
    /\ applied' = applied + 1
    /\ notified' = << >>
    /\ thrown' = FALSE
    /\ UNCHANGED <<tvars, lastCall, tokens, dvars>>

InitMessage(m) == StoreStep(MaxMessages) /\ ApplyInit(m)
EventMessage(e) == StoreStep(MaxMessages) /\ ApplyEvent(e)
IgnoredMessage(type) == StoreStep(MaxMessages) /\ ApplyIgnored(type)
Reset == StoreStep(MaxMessages) /\ ResetMonitor

NextStore ==
    \/ \E m \in InitMessages : InitMessage(m)
    \/ \E e \in EventChoices(applied + 1) : EventMessage(e)
    \/ \E type \in {"event", "error"} : IgnoredMessage(type)
    \/ Reset

SpecStore == Init /\ [][NextStore]_vars

\* A long session: only `event` messages, applied to the empty store.
StreamMessage ==
    /\ StoreStep(EVENT_CAP + StreamExtra)
    /\ ApplyEvent(StreamEvent(applied + 1))

NextStream == StreamMessage

SpecStream == Init /\ [][NextStream]_vars

\* Any sequence of `event` messages, applied to the empty store.
NextEvents == \E e \in EventChoices(applied + 1) : EventMessage(e)

SpecEvents == Init /\ [][NextEvents]_vars

----------------------------------------------------------------------------
(* The duration ticker *)

\* Timestamps and Date.now() are instants in milliseconds; new Date(startedAt)
\* .getTime() is the instant the timestamp denotes.
ElapsedChoices ==
    {0 - 500, 0, 999, 1000, 59999, 60000, 90000, 3599999, 3600000, 3661000,
     86400000 + 7325000}

\* a format whose hour branch prints the total minutes
FormatDuration_TotalMinutes(startedAt, now) ==
    IF startedAt = NULL
    THEN "-"
    ELSE LET seconds == (now - startedAt) \div 1000
             minutes == seconds \div 60
             hours == minutes \div 60
         IN  IF hours > 0
             THEN ToString(hours) \o "h " \o ToString(minutes) \o "m"
             ELSE IF minutes > 0
             THEN ToString(minutes) \o "m " \o ToString(seconds % 60) \o "s"
             ELSE ToString(seconds) \o "s"

\* the interval callback: the string handed to setDuration
FormatDuration(startedAt, now) ==
    IF startedAt = NULL
    THEN "-"
    ELSE LET seconds == (now - startedAt) \div 1000
             minutes == seconds \div 60
             hours == minutes \div 60
         IN  IF hours > 0
             THEN ToString(hours) \o "h " \o ToString(minutes % 60) \o "m"
             ELSE IF minutes > 0
             THEN ToString(minutes) \o "m " \o ToString(seconds % 60) \o "s"
             ELSE ToString(seconds) \o "s"

\* setInterval returns an id that no pending interval and no kept handle has.
FreshInterval ==
    CHOOSE i \in 1..(Cardinality(intervals) + 2) :
        i \notin intervals /\ i # durationInterval

\* a start that never finds the ticker running
TickerRunning_Never(handle) == FALSE

\* startDurationUpdater: if (durationInterval) return
TickerRunning(handle) == handle # NULL

\* startDurationUpdater(): the handle and the pending intervals afterwards
StartTicker ==
    IF TickerRunning(durationInterval)
    THEN UNCHANGED <<durationInterval, intervals>>
    ELSE /\ durationInterval' = FreshInterval
         /\ intervals' = intervals \cup {FreshInterval}

\* stopDurationUpdater()
StopTicker ==
    IF durationInterval # NULL
    THEN /\ intervals' = intervals \ {durationInterval}
         /\ durationInterval' = NULL
    ELSE UNCHANGED <<durationInterval, intervals>>

\* A call of startDurationUpdater().
StartDurationUpdater ==
    /\ StartTicker
    /\ notified' = << >>
    /\ thrown' = FALSE
    /\ last' = Step("startTicker", durationInterval # NULL)
    /\ UNCHANGED <<tvars, svars, lastCall, history, applied, tokens, clock, mounts>>

\* A call of stopDurationUpdater().
StopDurationUpdater ==
    /\ StopTicker
    /\ notified' = << >>
    /\ thrown' = FALSE
    /\ last' = Step("stopTicker", durationInterval # NULL)
    /\ UNCHANGED <<tvars, svars, lastCall, history, applied, tokens, clock, mounts>>

\* The interval callback, run when a pending interval is due, with Date.now()
\* returning `now`.
DurationTick(now) ==
    /\ intervals # {}
    /\ duration' = FormatDuration(state.started_at, now)
    /\ clock' = now
    /\ notified' = << >>
    /\ thrown' = FALSE
    /\ last' = Step("durationTick", state.started_at # NULL)
    /\ UNCHANGED <<tvars, events, state, connected, connectedSig,
                   lastCall, history, applied, tokens,
                   durationInterval, intervals, mounts>>

\* What Date.now() can return at a tick: some time around started_at.
NowChoices == {state.started_at + d : d \in ElapsedChoices}

\* The events of one agent's sessions.
SessionEvents(n) == {Event(n, "coder", "start", "wf"), Event(n, "coder", "end", NONE)}

NextTicker ==
    \/ StartDurationUpdater
    \/ StopDurationUpdater
    \/ \E now \in NowChoices : DurationTick(now)
    \/ \E e \in SessionEvents(applied + 1) : EventMessage(e)

SpecTicker == Init /\ [][NextTicker]_vars

----------------------------------------------------------------------------
(* The monitor: initializeMonitor() and the cleanup function it returns *)

\* initializeMonitor(): subscribe both store handlers, connect(), start the
\* duration ticker.
InitializeMonitor ==
    /\ mounts < MaxMounts
    /\ ConnectNoop(ws) \/ LiveCount(ws, detached) < MaxSockets - 1
    /\ messageHandlers' = Push(messageHandlers, "handleMessage")
    /\ connectionHandlers' = Push(connectionHandlers, "handleConnection")
    /\ ConnectBody
    /\ StartTicker
    /\ mounts' = mounts + 1
    /\ notified' = << >>
    /\ thrown' = FALSE
    /\ last' = Step("initialize", ConnectNoop(ws))
    /\ lastCall' = "initialize"
    /\ UNCHANGED <<reconnectTimeout, timers, svars, history, applied, tokens, clock>>

\* The cleanup function: unsubMessage(), unsubConnection(), disconnect(),
\* stopDurationUpdater().
Cleanup ==
    /\ mounts > 0
    /\ messageHandlers' = Unsubscribed(messageHandlers, "handleMessage")
    /\ connectionHandlers' = Unsubscribed(connectionHandlers, "handleConnection")
    /\ DisconnectBody
    /\ StopTicker
    /\ notified' = << >>
    /\ thrown' = FALSE
    /\ last' = Step("cleanup", reconnectTimeout \in TimerIds(timers))
    /\ lastCall' = "cleanup"
    /\ UNCHANGED <<svars, history, applied, tokens, clock, mounts>>

NextMonitor ==
    \/ InitializeMonitor
    \/ Cleanup
    \/ Connect
    \/ Tick
    \/ \E t \in timers : TimerFire(t)
    \/ \E cur \in BOOLEAN : OnOpen(cur)
    \/ \E cur \in BOOLEAN, rs \in LiveStates : OnClose(cur, rs)

SpecMonitor == Init /\ [][NextMonitor]_vars

----------------------------------------------------------------------------
(* Frames: from the socket through the transport to the store *)

\* WebSocketMessage: type, the init fields, event?
Message(type, init, hasEvent, event) ==
    [type |-> type, init |-> init, hasEvent |-> hasEvent, event |-> event]

NoInit == [hasEvents |-> FALSE, events |-> << >>, hasState |-> FALSE]
NoEvent == Event(NULL, NONE, NONE, NONE)

\* The messages the n-th frame can decode to.
MessageChoices(n) ==
    {Message("init",
             [hasEvents |-> TRUE,
              events |-> <<SnapshotEvent(2), SnapshotEvent(1)>>,
              hasState |-> TRUE],
             FALSE, NoEvent)}
    \cup {Message("event", NoInit, TRUE, e) :
              e \in {Event(n, "coder", "start", "wf"), Event(n, "coder", "end", NONE)}}
    \cup {Message("event", NoInit, FALSE, NoEvent),
          Message("error", NoInit, FALSE, NoEvent)}

\* A frame is its text as JSON.parse sees it: `ok` when the text is JSON,
\* and then `msg` is the value it parses to.
Undecodable == [ok |-> FALSE, msg |-> Message("undefined", NoInit, FALSE, NoEvent)]

FrameChoices(n) ==
    {Undecodable} \cup {[ok |-> TRUE, msg |-> m] : m \in MessageChoices(n)}

\* an onmessage that hands every frame to the subscribers
Decoded_Always(frame) == TRUE

\* const message = JSON.parse(event.data) did not throw
Decoded(frame) == frame.ok

\* handleMessage(message) on the store value s = [events, state]
HandleMessage(s, m) ==
    IF m.type = "init"
    THEN [events |-> InitLog(s.events, m.init),
          state |-> InitState(s.state, m.init)]
    ELSE IF m.type = "event" /\ m.hasEvent
    THEN [events |-> Appended(s.events, m.event),
          state |-> UpdateStateFromEvent(s.state, m.event, s.events,
                                         Appended(s.events, m.event))]
    ELSE s

\* notifyMessage(message): the store after the handlers hs ran in order
RECURSIVE Delivered(_, _, _)
Delivered(s, hs, m) ==
    IF hs = << >>
    THEN s
    ELSE Delivered(IF Head(hs) = "handleMessage" THEN HandleMessage(s, m) ELSE s,
                   Tail(hs), m)

\* ws.onmessage of the referenced socket (cur) or of a detached one:
\* try { notifyMessage(JSON.parse(event.data)) } catch { console.error }.
\* The catch takes a decode failure and also whatever a handler throws.
OnMessage(cur, frame) ==
    /\ applied < MaxFrames
    /\ IF cur THEN ws = "OPEN" ELSE detached["OPEN"] > 0
    /\ LET hs == IF Decoded(frame) THEN messageHandlers ELSE << >>
           s == Delivered([events |-> events, state |-> state],
                          Invoked(hs), frame.msg)
       IN  /\ notified' = Calls(hs, frame.msg)
           /\ events' = s.events
           /\ state' = s.state
    /\ thrown' = FALSE
    /\ history' = (IF ~frame.ok THEN history
                   ELSE IF frame.msg.type = "init"
                   THEN (IF frame.msg.init.hasEvents
                         THEN frame.msg.init.events ELSE << >>)
                   ELSE IF frame.msg.type = "event" /\ frame.msg.hasEvent
                   THEN Append(history, frame.msg.event)
                   ELSE history)
    /\ last' = Step("message", frame.ok)
    /\ applied' = applied + 1
    /\ UNCHANGED <<tvars, connected, connectedSig, duration, lastCall, tokens, dvars>>

\* An explicit connect() by a host that has left no socket behind, or
\* whose socket is open.
BusConnect ==
    /\ ConnectNoop(ws) \/ detached = NoSockets
    /\ Connect

\* Handlers that call an unsubscribe function while they are being notified:
\* "mOnce" calls its own.
ReentrantHandlerIds == {"handleMessage", "mOnce"}

Unsubscribes(h) == h = "mOnce"

\* for (const handler of this.messageHandlers) handler(message), over the
\* live array: the iterator holds a position, each handler sees the list as
\* the handlers before it left it, and the loop ends when the position
\* passes the current length or a handler throws.
RECURSIVE ForOf(_, _, _)
ForOf(list, i, invoked) ==
    IF i > Len(list)
    THEN [list |-> list, invoked |-> invoked]
    ELSE LET h == list[i]
             after == IF Unsubscribes(h) THEN Unsubscribed(list, h) ELSE list
         IN  IF Throws(h)
             THEN [list |-> after, invoked |-> Append(invoked, h)]
             ELSE ForOf(after, i + 1, Append(invoked, h))

\* ws.onmessage of the referenced socket with handlers that may unsubscribe
\* during the dispatch.
OnMessageLoop(frame) ==
    /\ applied < MaxFrames
    /\ ws = "OPEN"
    /\ LET run == IF Decoded(frame)
                  THEN ForOf(messageHandlers, 1, << >>)
                  ELSE [list |-> messageHandlers, invoked |-> << >>]
           s == Delivered([events |-> events, state |-> state],
                          run.invoked, frame.msg)
       IN  /\ messageHandlers' = run.list
           /\ notified' = [i \in 1..Len(run.invoked) |-> <<run.invoked[i], frame.msg>>]
           /\ events' = s.events
           /\ state' = s.state
    /\ thrown' = FALSE
    /\ history' = (IF ~frame.ok THEN history
                   ELSE IF frame.msg.type = "init"
                   THEN (IF frame.msg.init.hasEvents
                         THEN frame.msg.init.events ELSE << >>)
                   ELSE IF frame.msg.type = "event" /\ frame.msg.hasEvent
                   THEN Append(history, frame.msg.event)
                   ELSE history)
    /\ last' = Step("dispatch", frame.ok)
    /\ applied' = applied + 1
    /\ UNCHANGED <<ws, detached, isManualClose, reconnectTimeout, timers,
                   connectionHandlers, connected, connectedSig, duration,
                   lastCall, tokens, dvars>>

NextReentrant ==
    \/ BusConnect
    \/ \E cur \in BOOLEAN : OnOpen(cur)
    \/ \E cur \in BOOLEAN, rs \in LiveStates : OnClose(cur, rs)
    \/ \E h \in ReentrantHandlerIds : SubscribeMessageUpTo(MaxBusHandlers, h)
    \/ \E frame \in FrameChoices(applied + 1) : OnMessageLoop(frame)

SpecReentrant == Init /\ [][NextReentrant]_vars

\* A call of resetMonitor() by the host.
ResetCall ==
    /\ ResetMonitor
    /\ notified' = << >>
    /\ thrown' = FALSE
    /\ UNCHANGED <<tvars, lastCall, applied, tokens, dvars>>

\* The mounted monitor: the store's handlers are subscribed by
\* initializeMonitor(), frames arrive, the host may reset.
NextSession ==
    \/ InitializeMonitor
    \/ Cleanup
    \/ ResetCall
    \/ \E cur \in BOOLEAN : OnOpen(cur)
    \/ \E cur \in BOOLEAN, rs \in LiveStates : OnClose(cur, rs)
    \/ \E cur \in BOOLEAN, frame \in FrameChoices(applied + 1) : OnMessage(cur, frame)

SpecSession == Init /\ [][NextSession]_vars

NextBus ==
    \/ BusConnect
    \/ Disconnect
    \/ \E cur \in BOOLEAN : OnOpen(cur)
    \/ \E cur \in BOOLEAN, rs \in LiveStates : OnClose(cur, rs)
    \/ \E h \in MessageHandlerIds : SubscribeMessageUpTo(MaxBusHandlers, h)
    \/ \E h \in MessageHandlerIds : UnsubscribeMessage(h)
    \/ \E cur \in BOOLEAN, frame \in FrameChoices(applied + 1) : OnMessage(cur, frame)

SpecBus == Init /\ [][NextBus]_vars

----------------------------------------------------------------------------
(* Properties of the transport, under SpecTransport *)

\* Sockets that are connecting or open and whose callbacks the transport wired.
WiredConnections ==
    (IF ws \in {"CONNECTING", "OPEN"} THEN 1 ELSE 0)
    + detached["CONNECTING"] + detached["OPEN"]

\* C1: while the last explicit call is disconnect(), no reconnect timer is
\* pending and the transport has not called connect() from a timer: the
\* timer pending at disconnect() was cancelled and no close notification
\* scheduled a new one.
C1_NoReconnectAfterDisconnect ==
    lastCall = "disconnect" => timers = {} /\ last.op # "timer"

\* disconnect() has just cancelled a pending reconnect timer
C1_Witness ==
    last = Step("disconnect", TRUE) /\ lastCall = "disconnect" /\ timers = {}

\* C2 (as claimed): a close that arrives while the manual-close flag is
\* clear leaves a reconnect timer pending, due after RECONNECT_DELAY.
C2_CloseSchedulesReconnect ==
    (last.op = "close" /\ ~isManualClose) =>
        \E t \in timers : t.id = reconnectTimeout /\ t.remaining = RECONNECT_DELAY

\* C3: at most one reconnect timer is pending in every reachable state.
C3_AtMostOneTimer == Cardinality(timers) <= 1

\* a close arrived while a timer was pending and scheduled its reconnect
C3_Witness ==
    /\ last = Step("close", TRUE)
    /\ ~thrown
    /\ ~isManualClose
    /\ Cardinality(timers) = 1

\* C4 (as claimed): at most one connecting-or-open socket is wired to the
\* transport.
C4_SingleConnection == WiredConnections <= 1

\* C5 (as claimed): a connect() call that directly follows a connect() call
\* changes nothing in the transport, so that two calls in a row leave it as
\* one call does.
C5_ConnectIdempotent ==
    [][(last.op = "connect" /\ last'.op = "connect") => UNCHANGED tvars]_vars

\* C6: a connect() call made while the current socket is open changes
\* nothing: no socket is created, nothing is thrown, no subscriber is
\* invoked, and the handle, the manual-close flag, the reconnect timer, both
\* subscriber lists and the store are as before.
C6_ConnectWhileOpenIsNoop ==
    [][(IsOpen(ws) /\ last'.op = "connect" /\ lastCall' = "connect") =>
           /\ UNCHANGED <<tvars, svars>>
           /\ notified' = << >>
           /\ ~thrown']_vars

\* connect() has just returned early while a reconnect timer was pending and
\* both lists had subscribers
C6_Witness ==
    /\ last = Step("connect", TRUE)
    /\ ws = "OPEN"
    /\ timers # {}
    /\ connectionHandlers # << >>
    /\ messageHandlers # << >>

----------------------------------------------------------------------------
(* Properties of the store *)

\* C7 (as claimed), under SpecStream: after the n-th event applied to the
\* empty store, event_count is n.
C7_CountEqualsApplied == state.event_count = applied

\* C8 (as claimed), under SpecStore: an `event` message sets event_count to
\* the length the log had before the append, plus one.
C8_CountIsPriorLengthPlusOne ==
    [][last'.op = "event" /\ applied' = applied + 1 =>
           state'.event_count = Len(events) + 1]_vars

\* C9, under SpecStream: after n events applied to the empty store the log is
\* the last min(n, 1000) of them, in order; after the 1001st it holds 1000
\* events and begins with the second one.
C9_LogIsLastCapEvents ==
    /\ Len(events) = Min(applied, EVENT_CAP)
    /\ \A i \in 1..Len(events) :
           /\ events[i] = StreamEvent(applied - Len(events) + i)
           /\ events[i] = history[applied - Len(events) + i]
    /\ applied = EVENT_CAP + 1 => Len(events) = EVENT_CAP /\ events[1] = StreamEvent(2)

\* the 1001st event has been applied and the first one dropped
C9_Witness ==
    /\ applied = EVENT_CAP + 1
    /\ last = Step("event", TRUE)
    /\ Len(events) = EVENT_CAP
    /\ events[1].timestamp = 2

\* C10 (as claimed), under SpecStore: the log never holds more than 1000
\* events.
C10_LogBounded == Len(events) <= EVENT_CAP

\* C11, under SpecStore: right after an `init` message the log is exactly the
\* event sequence the message supplied, in order, and empty when it supplied
\* none, whatever the log held before.
C11_InitReplacesLog ==
    [][last'.op = "init" /\ applied' = applied + 1 =>
           /\ events' = history'
           /\ \E m \in InitMessages :
                  /\ events' = (IF m.hasEvents THEN m.events ELSE << >>)
                  /\ last'.flag = m.hasState]_vars

\* an init with two events and no snapshot has replaced a log of one event
C11_Witness ==
    /\ applied = 2
    /\ last = Step("init", FALSE)
    /\ state.event_count = 2
    /\ events = <<SnapshotEvent(2), SnapshotEvent(1)>>

\* Positions of the `start` events of h with no later `end` for the same agent.
UnmatchedStarts(h) ==
    {i \in 1..Len(h) :
        /\ h[i].action = "start"
        /\ \A j \in (i + 1)..Len(h) :
               ~(h[j].action = "end" /\ h[j].agent = h[i].agent)}

Starts(h) == {i \in 1..Len(h) : h[i].action = "start"}

Latest(S) == CHOOSE i \in S : \A j \in S : j <= i

MostRecentUnmatchedStart(h) ==
    IF UnmatchedStarts(h) = {} THEN NONE ELSE h[Latest(UnmatchedStarts(h))].agent

LastStartIfUnmatched(h) ==
    IF Starts(h) # {} /\ Latest(Starts(h)) \in UnmatchedStarts(h)
    THEN h[Latest(Starts(h))].agent
    ELSE NONE

\* C12 as stated, under SpecEvents: after any sequence of events applied to
\* the empty store, active_agent is the agent of the most recent start that
\* has no later end for the same agent, and null when there is none.
C12_ActiveIsMostRecentUnmatchedStart ==
    state.active_agent = MostRecentUnmatchedStart(history)

\* C12 amended, under SpecEvents: after any sequence of events applied to the
\* empty store, active_agent is the agent of the last start event if no end
\* for that agent follows it, and null otherwise, also when an earlier start
\* of another agent is still unmatched.
C12_ActiveIsLastStartIfUnmatched ==
    state.active_agent = LastStartIfUnmatched(history)

\* start A, start B, end B: A's start is unmatched and nothing is active
C12_Witness ==
    /\ Len(history) = 3
    /\ history[1].action = "start"
    /\ history[2].action = "start"
    /\ history[2].agent # history[1].agent
    /\ history[3].action = "end"
    /\ history[3].agent = history[2].agent
    /\ MostRecentUnmatchedStart(history) = history[1].agent
    /\ state.active_agent = NONE

\* The step applies an `event` message; its event is the last of history'.
EventStep == last'.op = "event" /\ applied' = applied + 1

SessionUnchanged ==
    /\ state'.active_agent = state.active_agent
    /\ state'.active_workflow = state.active_workflow
    /\ state'.started_at = state.started_at

\* C13, under SpecStore: an `end` event whose agent is not the active agent
\* (or with no agent active) leaves active_agent, active_workflow and
\* started_at as they were, the event is the new last entry of the log, and
\* event_count grows by exactly one.
C13_NonMatchingEndOnlyCounts ==
    [][EventStep =>
          LET e == history'[Len(history')]
          IN  e.action = "end" /\ e.agent # state.active_agent =>
                  /\ SessionUnchanged
                  /\ events'[Len(events')] = e
                  /\ state'.event_count = state.event_count + 1]_vars

\* C14, under SpecStore: a `start` event sets active_agent, active_workflow
\* and started_at to the event's agent, workflow and timestamp whatever was
\* active before, and the `end` of the active agent clears all three: the
\* session that the start preempted does not come back.
C14_StartPreempts ==
    [][EventStep =>
          LET e == history'[Len(history')]
          IN  /\ e.action = "start" =>
                     /\ state'.active_agent = e.agent
                     /\ state'.active_workflow = e.workflow
                     /\ state'.started_at = e.timestamp
              /\ e.action = "end" /\ e.agent = state.active_agent =>
                     /\ state'.active_agent = NONE
                     /\ state'.active_workflow = NONE
                     /\ state'.started_at = NULL]_vars

\* a session was preempted by another agent's start, which has then ended:
\* nothing is active
C14_Witness ==
    /\ Len(history) >= 3
    /\ LET n == Len(history)
       IN  /\ history[n - 2].action = "start"
           /\ history[n - 1].action = "start"
           /\ history[n - 1].agent # history[n - 2].agent
           /\ history[n].action = "end"
           /\ history[n].agent = history[n - 1].agent
    /\ last.op = "event"
    /\ state.active_agent = NONE
    /\ state.active_workflow = NONE
    /\ state.started_at = NULL

\* C15, under SpecStore: an event whose action is neither `start` nor `end`
\* leaves active_agent, active_workflow and started_at as they were, is the
\* new last entry of the log, and event_count grows by exactly one.
C15_OtherActionOnlyCounts ==
    [][EventStep =>
          LET e == history'[Len(history')]
          IN  e.action \notin {"start", "end"} =>
                  /\ SessionUnchanged
                  /\ events'[Len(events')] = e
                  /\ state'.event_count = state.event_count + 1]_vars

\* C16, under SpecStore: applying a message of type `error` leaves the event
\* log and the four SessionState fields as they were, in every store state.
C16_ErrorMessageIgnored ==
    [][last' = Step("ignored", TRUE) /\ applied' = applied + 1 =>
           /\ events' = events
           /\ state'.active_agent = state.active_agent
           /\ state'.active_workflow = state.active_workflow
           /\ state'.started_at = state.started_at
           /\ state'.event_count = state.event_count]_vars

\* an `error` message has been applied to a store with a log and a session
C16_Witness ==
    /\ last = Step("ignored", TRUE)
    /\ events # << >>
    /\ state.active_agent # NONE
    /\ state.event_count > 0

----------------------------------------------------------------------------
(* Properties of frame delivery, under SpecBus *)

HandlersOf(calls) == [i \in 1..Len(calls) |-> calls[i][1]]

\* C17, under SpecBus: a frame that fails to decode is dropped: no message
\* subscriber is invoked, no exception leaves the callback, the store is as
\* it was, and so are the socket, the flag, the timers and the subscriber
\* lists: the connection stays and no reconnect is scheduled.
C17_UndecodableFrameDropped ==
    [][last' = Step("message", FALSE) /\ applied' = applied + 1 =>
           /\ notified' = << >>
           /\ ~thrown'
           /\ UNCHANGED svars
           /\ UNCHANGED tvars]_vars

\* an undecodable frame has arrived on the open socket while the store's
\* handler was subscribed
C17_Witness ==
    /\ last = Step("message", FALSE)
    /\ ws = "OPEN"
    /\ \E i \in 1..Len(messageHandlers) : messageHandlers[i] = "handleMessage"
    /\ notified = << >>
    /\ events = << >>

\* C18, under SpecBus: for a decoded message the handlers invoked are exactly
\* the registered ones, each registration once, in registration order; a
\* handler removed by its unsubscribe function is not among them.
C18_EachHandlerOnceInOrder ==
    last = Step("message", TRUE) => HandlersOf(notified) = messageHandlers

\* C19, under SpecBus: when a subscriber throws during a dispatch, the
\* subscribers registered after it are invoked all the same.
C19_ThrowSkipsNobody ==
    /\ last = Step("message", TRUE) =>
           \A i \in 1..Len(messageHandlers) :
               Throws(messageHandlers[i]) =>
                   \A j \in (i + 1)..Len(messageHandlers) :
                       j <= Len(notified) /\ notified[j][1] = messageHandlers[j]
    /\ last.op \in {"open", "close"} =>
           \A i \in 1..Len(connectionHandlers) :
               Throws(connectionHandlers[i]) =>
                   \A j \in (i + 1)..Len(connectionHandlers) :
                       j <= Len(notified) /\ notified[j][1] = connectionHandlers[j]

\* C20, under SpecTokens: a second call of the same unsubscribe function is
\* a no-op: whatever the list holds and whatever was registered since the
\* first call, the list after the call is the list before it.
C20_SecondUnsubscribeIsNoop ==
    [][last'.op = "token" /\ last'.flag => messageHandlers' = messageHandlers]_vars

----------------------------------------------------------------------------
(* Reset, snapshots and the counter, under SpecStore *)

\* C21, under SpecStore: right after resetMonitor() the event log is empty,
\* active_agent, active_workflow and started_at are null, event_count is 0
\* and the duration string is "-".
C21_ResetClearsStore ==
    last.op = "reset" =>
        /\ events = << >>
        /\ state = EmptyState
        /\ duration = "-"

----------------------------------------------------------------------------
(* Properties of the duration ticker, under SpecTicker *)

\* The duration string as the documentation gives it, for s whole seconds.
DocumentedDuration(s) ==
    IF s >= 3600
    THEN ToString(s \div 3600) \o "h " \o ToString((s \div 60) % 60) \o "m"
    ELSE IF s >= 60
    THEN ToString(s \div 60) \o "m " \o ToString(s % 60) \o "s"
    ELSE ToString(s) \o "s"

ElapsedSeconds == (clock - state.started_at) \div 1000

\* C22, under SpecTicker: after a tick the duration is "-" when started_at
\* is null; otherwise, with s >= 0 the whole seconds elapsed since
\* started_at, it is "<s div 3600>h <(s div 60) mod 60>m" for s >= 3600,
\* "<s div 60>m <s mod 60>s" for 60 <= s < 3600 and "<s>s" below 60; 90
\* seconds give "1m 30s" and 3661 seconds give "1h 1m".
C22_DurationFormat ==
    /\ last = Step("durationTick", FALSE) => duration = "-"
    /\ last = Step("durationTick", TRUE) /\ ElapsedSeconds >= 0 =>
           /\ duration = DocumentedDuration(ElapsedSeconds)
           /\ ElapsedSeconds = 90 => duration = "1m 30s"
           /\ ElapsedSeconds = 3661 => duration = "1h 1m"

\* a tick 3661 seconds into a session
C22_Witness ==
    /\ last = Step("durationTick", TRUE)
    /\ ElapsedSeconds = 3661
    /\ duration = "1h 1m"

\* C23, under SpecTicker: at most one periodic duration timer exists in every
\* state; a start while the ticker runs and a stop while it does not change
\* nothing.
C23_AtMostOneTicker ==
    [][/\ Cardinality(intervals') <= 1
       /\ intervals' = (IF durationInterval' = NULL THEN {} ELSE {durationInterval'})
       /\ last' = Step("startTicker", TRUE) => UNCHANGED <<durationInterval, intervals>>
       /\ last' = Step("stopTicker", FALSE) => UNCHANGED <<durationInterval, intervals>>]_vars

\* the ticker was started while it was already running
C23_Witness ==
    /\ last = Step("startTicker", TRUE)
    /\ Cardinality(intervals) = 1
    /\ durationInterval \in intervals

----------------------------------------------------------------------------
(* Teardown, under SpecMonitor *)

\* C24, under SpecMonitor: from the cleanup function's return until the next
\* initializeMonitor() or connect() call no reconnect timer and no duration
\* timer is pending, whatever open and close notifications arrive meanwhile.
C24_NoTimerAfterCleanup ==
    lastCall = "cleanup" => timers = {} /\ intervals = {}

\* the close notification of a socket has arrived after the cleanup
C24_Witness ==
    /\ lastCall = "cleanup"
    /\ last.op = "close"
    /\ isManualClose
    /\ ws = NONE
    /\ timers = {}
    /\ intervals = {}

----------------------------------------------------------------------------
(* Notification, ordering and recovery *)

\* C25, under SpecTransport: an open invokes every registered connection
\* subscriber with true and a close invokes every one with false, each
\* once, in registration order.
C25_EveryConnectionSubscriberNotified ==
    last.op \in {"open", "close"} =>
        notified = [i \in 1..Len(connectionHandlers) |->
                       <<connectionHandlers[i], last.op = "open">>]

\* Some contiguous suffix of h is the log.
IsSuffix(log, h) ==
    /\ Len(log) <= Len(h)
    /\ log = SubSeq(h, Len(h) - Len(log) + 1, Len(h))

\* C26, under SpecBus: in every state the event log is a contiguous suffix
\* of the events of the last init followed by the events of the `event`
\* messages delivered since, in delivery order.
C26_LogIsSuffixOfDelivered == IsSuffix(events, history)

\* C27, under SpecStore: applying an `event` message never lowers
\* event_count, also after an init whose snapshot carries an event_count
\* above the length of its event sequence.
C27_CountNeverDecreases ==
    [][EventStep => state'.event_count >= state.event_count]_vars

\* C28, under SpecStore: an init with a state snapshot sets all four
\* SessionState fields to the snapshot's values; an init without one
\* replaces the log and leaves all four fields as they were.
C28_InitStateOnlyWithSnapshot ==
    [][last'.op = "init" /\ applied' = applied + 1 =>
           /\ last'.flag => state' = SnapshotState
           /\ ~last'.flag => state' = state
           /\ events' = history']_vars

\* an init without a snapshot has replaced the log of a running session
C28_Witness ==
    /\ last = Step("init", FALSE)
    /\ state.active_agent = "tester"
    /\ state.event_count = 2
    /\ events = <<SnapshotEvent(2), SnapshotEvent(1)>>

\* C29, under SpecTransport: a close that was not caused by disconnect()
\* schedules the reconnect attempt also when a connection subscriber throws
\* while being notified of it.
C29_ThrowingSubscriberStillReconnects ==
    [][last'.op = "close" /\ thrown' /\ ~isManualClose =>
           \E t \in timers' :
               t.id = reconnectTimeout' /\ t.remaining = RECONNECT_DELAY]_vars

\* C30, under SpecTransport: the close notification of a socket that
\* disconnect() released schedules no reconnect timer, also when connect()
\* has been called since and has cleared the manual-close flag.
C30_ReleasedSocketNeverReconnects ==
    [][detached'["CLOSING"] < detached["CLOSING"] =>
           timers' = timers /\ reconnectTimeout' = reconnectTimeout]_vars

----------------------------------------------------------------------------
(* Unsubscribing during a dispatch, under SpecReentrant *)

\* C31, under SpecReentrant: when a subscriber calls an unsubscribe function
\* during a dispatch, every subscriber that was registered when the dispatch
\* began and is still registered after it has been invoked for the message.
C31_UnsubscribeDuringDispatchSkipsNobody ==
    last = Step("dispatch", TRUE) =>
        \A i \in 1..Len(messageHandlers) :
            \E j \in 1..Len(notified) : notified[j][1] = messageHandlers[i]

----------------------------------------------------------------------------
(* The connection indicators *)

\* C32, under SpecMonitor: between callbacks the store's connected flag is
\* true exactly when isConnected() is true, after any opens, closes and
\* reconnects and also after the cleanup function has run and the socket's
\* close notification has been delivered.
C32_ConnectedMatchesTransport == connected = IsConnected

\* C33, under SpecSession: the store's `connected` field and the `connected`
\* signal are equal in every state, across connection notifications,
\* applied messages and resetMonitor().
C33_IndicatorsAgree == connected = connectedSig

\* resetMonitor() has been called while both indicators were true
C33_Witness ==
    /\ last.op = "reset"
    /\ connected
    /\ connectedSig
    /\ ws = "OPEN"

\* No cleanup has taken a registration away: every initializeMonitor() call
\* still has its handleMessage on the list.
NoCleanupYet == Len(messageHandlers) = mounts

\* C34, under SpecSession: after a second initializeMonitor() with no
\* cleanup in between, an `event` message delivered by the transport makes
\* the log one entry longer, not more.
C34_EventAppendedOnce ==
    [][/\ last' = Step("message", TRUE)
       /\ applied' = applied + 1
       /\ Len(history') = Len(history) + 1
       /\ history' = Append(history, history'[Len(history')])
       /\ mounts >= 2
       /\ NoCleanupYet
       => Len(events') = Len(events) + 1]_vars

====
